---- MODULE Spec2Model ----
(***************************************************************************)
(* Model of backend/geospatial_search_enhanced.py: the PostGISSearcher     *)
(* store client, QueryDecomposer.decompose and the four-node LangGraph     *)
(* pipeline of GeospatialSearchAgent.                                      *)
(*                                                                         *)
(* Text is a tuple of one-character strings, so that LOWER, LIKE and       *)
(* substring containment are computed and not assumed.                     *)
(***************************************************************************)
EXTENDS Integers, Sequences, FiniteSets, Bags, TLC

VARIABLES
    conn,         \* PostGISSearcher.conn: "none", "open" or "closed"
    txn,          \* whether the connection has a transaction in progress
    engine,       \* PostGISSearcher.engine: "none" or "ready"
    hash_order,   \* the iteration order of string sets in this process
    pc,           \* where the current run of search() stands
    state,        \* the SearchState of the current run
    llm,          \* <<response>> the language model gave to this run
    search_log,   \* what search_metadata did for each sub-query of this run
    last_call,    \* <<record>> of the last direct call of a store operation
    visited,      \* the nodes the graph has entered in this run, in order
    store,        \* the database: the catalog rows and the data tables
    runs,         \* two runs of one agent: each run's position and state
    parsed,       \* one response text and what decompose made of it
    api,          \* one call of an API function and its reply
    train,        \* one POST /automl/train request of the AutoML service
    factors,      \* one response text and what parse_final_response returned
    chat          \* the semantic search service: chatbot and its requests

\* the search agent with its store client
pipeline == <<conn, txn, engine, hash_order, pc, state, llm, search_log,
              last_call, visited, store>>

\* what the other specifications of this module are about
services == <<runs, parsed, api, train, factors, chat>>

vars == <<pipeline, services>>

(* ------------------------------ bounds -------------------------------- *)

\* longest search_queries list a language-model response carries
MaxSubQueries == 2
\* longest language-model response, in tokens
MaxTokens == 2
\* longest search_terms list of a direct search_metadata call
MaxTerms == 2
\* longest column_patterns list of a direct search_columns call
MaxPatterns == 2
\* longest response text, in tokens, handed to decompose on its own
MaxFenceTokens == 4
\* most rows of an uploaded CSV
MaxRows == 12
\* most lines of a final response of the factor model
MaxLines == 9
\* most /api/search requests one client sends
MaxRequests == 2

(* ------------------------- program constants -------------------------- *)

\* search_metadata([query], limit=10)
SEARCH_LIMIT == 10
\* list(tables)[:5]
TOP_TABLES == 5
\* get_table_sample(table_name, limit=3)
SAMPLE_LIMIT == 3
\* search_metadata(..., limit: int = 20)
DEFAULT_LIMIT == 20
\* search_columns(..., limit: int = 50)
COLUMNS_LIMIT == 50
\* if len(df) < 10
MIN_ROWS == 10
\* MAX_FACTORS = 8
MAX_FACTORS == 8

(* ------------------------------- text --------------------------------- *)

\* Python's None where a string is expected (a JSON null)
NoneText == <<"None">>

\* str.lower() in Python, LOWER() in SQL
LowerChar(c) ==
    CASE c = "V" -> "v"
      [] c = "S" -> "s"
      [] c = "N" -> "n"
      [] c = "F" -> "f"
      [] OTHER -> c

Lower(s) == [i \in 1..Len(s) |-> LowerChar(s[i])]

\* SQL  s LIKE p : % matches any run of characters, _ any one character
RECURSIVE LikeMatch(_, _)
LikeMatch(s, p) ==
    IF p = <<>> THEN s = <<>>
    ELSE IF Head(p) = "%"
         THEN LikeMatch(s, Tail(p)) \/ (s # <<>> /\ LikeMatch(Tail(s), p))
    ELSE IF s = <<>> THEN FALSE
    ELSE IF Head(p) = "_" THEN LikeMatch(Tail(s), Tail(p))
    ELSE Head(s) = Head(p) /\ LikeMatch(Tail(s), Tail(p))

\* f"%{term.lower()}%"
TermPattern(term) == <<"%">> \o Lower(term) \o <<"%">>

(* ------------------------------ catalog ------------------------------- *)

\* row_count IS NULL
NullCount == -1

\* the rows of dataset_metadata
Catalog ==
    { [id |-> 1, dataset_name |-> <<"V">>, table_name |-> <<"a">>,
       geometry_type |-> "POLYGON", row_count |-> 5,
       column_list |-> << <<"f">> >>],
      [id |-> 2, dataset_name |-> <<"x">>, table_name |-> <<"b">>,
       geometry_type |-> "POINT", row_count |-> 5,
       column_list |-> << <<"f">>, <<"v", "N">> >>],
      [id |-> 3, dataset_name |-> <<"s">>, table_name |-> <<"c">>,
       geometry_type |-> "POLYGON", row_count |-> 3,
       column_list |-> << <<"f">> >>],
      [id |-> 4, dataset_name |-> <<"S">>, table_name |-> <<"d">>,
       geometry_type |-> "POINT", row_count |-> NullCount,
       column_list |-> << <<"f">> >>],
      [id |-> 5, dataset_name |-> <<"x", "_">>, table_name |-> <<"e">>,
       geometry_type |-> "POLYGON", row_count |-> 2,
       column_list |-> << <<"f">> >>],
      [id |-> 6, dataset_name |-> <<"x">>, table_name |-> <<"g">>,
       geometry_type |-> "POINT", row_count |-> 1,
       column_list |-> << <<"F">> >>] }

\* data tables the catalog names but the database no longer holds
MissingTables == { <<"e">> }

\* rows held by a data table
TableRowCount(t) == IF t = <<"c">> THEN 0 ELSE 4

\* the database as it stands when the process starts: the catalog rows and,
\* for every data table that exists, the number of its rows
InitialStore ==
    [catalog |-> Catalog,
     tables |-> [t \in { row.table_name : row \in Catalog } \ MissingTables |->
                   TableRowCount(t)]]

\* faulty variant: a statement that removes the catalog rows
Select_Delete(s) == [s EXCEPT !.catalog = {}]

\* the database after a statement of the client: every statement it builds
\* is a SELECT and no call commits, so the database is as before
Select(s) == s

(* ---------------------- PostGISSearcher.search_metadata ---------------- *)

\* one entry of conditions: the term against dataset name, table name
\* and any column name
TermCondition(row, term) ==
    LET pat == TermPattern(term) IN
    \/ LikeMatch(Lower(row.dataset_name), pat)
    \/ LikeMatch(Lower(row.table_name), pat)
    \/ \E i \in 1..Len(row.column_list) : LikeMatch(Lower(row.column_list[i]), pat)

\* where_clause, with  ({where_clause}) AND geometry_type = %s  when a
\* geometry type is given (None and "" are both falsy)
WhereClause(row, terms, geometry_type) ==
    /\ \E i \in 1..Len(terms) : TermCondition(row, terms[i])
    /\ (geometry_type # "" => row.geometry_type = geometry_type)

\* faulty variant: DESC with the database's default place for nulls, first
SortsBefore_NullsFirst(r1, r2) ==
    /\ r2.row_count # NullCount
    /\ (r1.row_count = NullCount \/ r1.row_count > r2.row_count)

\* ORDER BY row_count DESC NULLS LAST: r1 must come before r2
SortsBefore(r1, r2) ==
    /\ r1.row_count # NullCount
    /\ (r2.row_count = NullCount \/ r1.row_count > r2.row_count)

\* every order the ORDER BY allows (rows with equal row_count in any order)
RECURSIVE OrderedSeqs(_)
OrderedSeqs(S) ==
    IF S = {} THEN { <<>> }
    ELSE UNION { { <<r>> \o t : t \in OrderedSeqs(S \ {r}) } :
                 r \in { x \in S : \A y \in S : ~SortsBefore(y, x) } }

\* LIMIT %s
Take(s, n) == SubSeq(s, 1, IF Len(s) < n THEN Len(s) ELSE n)

\* the result sets cursor.fetchall() may deliver
MetadataRows(terms, geometry_type, limit) ==
    { Take(s, limit) :
        s \in OrderedSeqs({ row \in store.catalog :
                                WhereClause(row, terms, geometry_type) }) }

(* --------------------------- the connection --------------------------- *)

\* what the database does to one statement: it runs, it fails (a server
\* side error the connection survives), or the connection is lost with it
Faults == { "none", "query_error", "conn_lost" }

\* PostGISSearcher.search_metadata on connection state (conn, txn).
\* conn = "none": self.conn is None, so self.conn.cursor raises and then
\* self.conn.rollback() in the handler raises as well; conn = "closed":
\* cursor() and rollback() both raise InterfaceError.  On an open
\* connection the first execute begins a transaction that a successful
\* call never ends; the handler's rollback ends it.  failed: the except
\* handler was entered (the query did not run to its end).
search_metadata(c, t, search_terms, geometry_type, limit, fault) ==
    IF c # "open"
    THEN { [outcome |-> "raised", failed |-> TRUE, rows |-> <<>>,
            conn |-> c, txn |-> t] }
    ELSE IF \E i \in 1..Len(search_terms) : search_terms[i] = NoneText
    THEN { [outcome |-> "returned", failed |-> TRUE, rows |-> <<>>,
            conn |-> c, txn |-> FALSE] }
    ELSE IF fault = "conn_lost"
    THEN { [outcome |-> "raised", failed |-> TRUE, rows |-> <<>>,
            conn |-> "closed", txn |-> FALSE] }
    ELSE IF fault = "query_error" \/ search_terms = <<>>
    THEN { [outcome |-> "returned", failed |-> TRUE, rows |-> <<>>,
            conn |-> c, txn |-> FALSE] }
    ELSE { [outcome |-> "returned", failed |-> FALSE, rows |-> r,
            conn |-> c, txn |-> TRUE] :
             r \in MetadataRows(search_terms, geometry_type, limit) }

\* the other operations that run on self.conn inside the same
\* try / except / self.conn.rollback() frame: execute_spatial_query,
\* get_statistics
cursor_operation(c, t, fault) ==
    IF c # "open"
    THEN [outcome |-> "raised", result |-> "none", conn |-> c, txn |-> t]
    ELSE IF fault = "conn_lost"
    THEN [outcome |-> "raised", result |-> "none", conn |-> "closed", txn |-> FALSE]
    ELSE IF fault = "query_error"
    THEN [outcome |-> "returned", result |-> "empty", conn |-> c, txn |-> FALSE]
    ELSE [outcome |-> "returned", result |-> "rows", conn |-> c, txn |-> TRUE]

(* ---------------------- PostGISSearcher.search_columns ----------------- *)

\* WHERE LOWER(col) LIKE %s  with  f"%{pattern.lower()}%"
ColumnMatches(col, pattern) == LikeMatch(Lower(col), TermPattern(pattern))

\* array_agg(col) of one group: the columns of the row that match
MatchingColumns(row, pattern) ==
    SelectSeq(row.column_list, LAMBDA col : ColumnMatches(col, pattern))

\* the groups of one statement: the catalog rows with a matching column
\* (GROUP BY table_name, dataset_name, geometry_type; the catalog has one
\* row per table)
ColumnGroups(pattern) ==
    { row \in store.catalog : MatchingColumns(row, pattern) # <<>> }

\* the statement has no ORDER BY, so the groups come in the order of the
\* plan; two plans are modelled, by ascending and by descending id
RECURSIVE ScanOrder(_, _)
ScanOrder(S, plan) ==
    IF S = {} THEN <<>>
    ELSE LET r == CHOOSE x \in S :
                     \A y \in S : IF plan = "asc" THEN x.id <= y.id ELSE x.id >= y.id
         IN <<r>> \o ScanOrder(S \ {r}, plan)

Plans == { "asc", "desc" }

\* the dicts appended for one pattern: cursor.fetchall() after LIMIT %s
PatternEntries(pattern, limit, plan) ==
    LET fetched == Take(ScanOrder(ColumnGroups(pattern), plan), limit) IN
    [i \in 1..Len(fetched) |->
        [table_name |-> fetched[i].table_name,
         dataset_name |-> fetched[i].dataset_name,
         geometry_type |-> fetched[i].geometry_type,
         matching_columns |-> MatchingColumns(fetched[i], pattern),
         search_pattern |-> pattern]]

\* results after the for loop over column_patterns
RECURSIVE ColumnResults(_, _, _)
ColumnResults(column_patterns, limit, plan) ==
    IF column_patterns = <<>> THEN <<>>
    ELSE PatternEntries(Head(column_patterns), limit, plan)
         \o ColumnResults(Tail(column_patterns), limit, plan)

\* PostGISSearcher.search_columns on connection state (conn, txn): the same
\* frame as search_metadata.  A None pattern raises at pattern.lower(), a
\* failing statement at cursor.execute; the handler drops the results
\* collected so far.  With no pattern no statement is executed.
search_columns(c, t, column_patterns, limit, fault) ==
    IF c # "open"
    THEN { [outcome |-> "raised", failed |-> TRUE, rows |-> <<>>,
            conn |-> c, txn |-> t] }
    ELSE IF column_patterns = <<>>
    THEN { [outcome |-> "returned", failed |-> FALSE, rows |-> <<>>,
            conn |-> c, txn |-> t] }
    ELSE IF \E i \in 1..Len(column_patterns) : column_patterns[i] = NoneText
    THEN { [outcome |-> "returned", failed |-> TRUE, rows |-> <<>>,
            conn |-> c, txn |-> FALSE] }
    ELSE IF fault = "conn_lost"
    THEN { [outcome |-> "raised", failed |-> TRUE, rows |-> <<>>,
            conn |-> "closed", txn |-> FALSE] }
    ELSE IF fault = "query_error"
    THEN { [outcome |-> "returned", failed |-> TRUE, rows |-> <<>>,
            conn |-> c, txn |-> FALSE] }
    ELSE { [outcome |-> "returned", failed |-> FALSE,
            rows |-> ColumnResults(column_patterns, limit, plan),
            conn |-> c, txn |-> TRUE] : plan \in Plans }

\* column_list of the catalog row of a table
ColumnsOf(table_name) ==
    (CHOOSE row \in Catalog : row.table_name = table_name).column_list

\* the table does not exist (any more)
TableMissing(table_name) == table_name \notin DOMAIN store.tables

\* PostGISSearcher.get_table_sample: pd.read_sql on self.engine; every
\* exception (engine None, table missing, database error) returns an empty
\* DataFrame.  The frame is modelled by its row count and its columns.
get_table_sample(e, table_name, limit, fault) ==
    IF e = "none" \/ fault # "none" \/ TableMissing(table_name)
    THEN [rows |-> 0, columns |-> <<>>]
    ELSE [rows |-> IF store.tables[table_name] < limit
                   THEN store.tables[table_name] ELSE limit,
          columns |-> ColumnsOf(table_name)]

\* PostGISSearcher.join_tables_by_fips: the same frame around pd.read_sql
join_tables_by_fips(e, table1, table2, fault) ==
    IF e = "none" \/ fault # "none"
       \/ TableMissing(table1) \/ TableMissing(table2)
    THEN [rows |-> 0, columns |-> <<>>]
    ELSE [rows |-> 1, columns |-> ColumnsOf(table1) \o ColumnsOf(table2)]

(* ------------------------ the language model -------------------------- *)

\* every sequence over S of length at most n
SeqsUpTo(S, n) == UNION { [1..k -> S] : k \in 0..n }

\* original query texts
Queries == { <<"v", "n">>, <<"S">> }

\* one element of search_queries.  type "dict" is a JSON object, anything
\* else has no .get (a string, also each character of a search_queries that
\* is itself a string).  query: a text, <<>> with has_query FALSE when the
\* key is absent, NoneText for null.  purpose: a string, "ABSENT" when the
\* key is absent, "None" for null, "LIST" for an unhashable value.
ItemSet ==
    { [type |-> "dict", has_query |-> TRUE, query |-> <<"v">>, purpose |-> "primary"],
      [type |-> "dict", has_query |-> TRUE, query |-> <<"n">>, purpose |-> "normalization"],
      [type |-> "dict", has_query |-> TRUE, query |-> <<"f">>, purpose |-> "ABSENT"],
      [type |-> "dict", has_query |-> TRUE, query |-> NoneText, purpose |-> "None"],
      [type |-> "dict", has_query |-> FALSE, query |-> <<>>, purpose |-> "geography"],
      [type |-> "dict", has_query |-> TRUE, query |-> <<"v">>, purpose |-> "LIST"],
      [type |-> "str", has_query |-> FALSE, query |-> <<>>, purpose |-> "ABSENT"] }

\* the JSON values a response may carry: an array, an object without
\* search_queries, an object whose search_queries is null, an object whose
\* search_queries holds items
Docs ==
    { [shape |-> "array", items |-> <<>>],
      [shape |-> "no_key", items |-> <<>>],
      [shape |-> "null_queries", items |-> <<>>] }
    \cup { [shape |-> "list", items |-> s] : s \in SeqsUpTo(ItemSet, MaxSubQueries) }

\* the scenario of the two sub-queries poverty / population
BasicDoc ==
    [shape |-> "list",
     items |-> << [type |-> "dict", has_query |-> TRUE, query |-> <<"v">>,
                   purpose |-> "primary"],
                  [type |-> "dict", has_query |-> TRUE, query |-> <<"n">>,
                   purpose |-> "normalization"] >>]

\* the pieces of a response text: the fence marker of three backquotes
\* followed by json (FENCE_JSON), the bare marker of three backquotes
\* (FENCE), white space, text that is no JSON, and the text of the JSON
\* value ("{}", standing for the response's doc)
Tokens == { "FENCE_JSON", "FENCE", " ", "prose", "{}" }

Contents == SeqsUpTo(Tokens, MaxTokens)

\* what llm.ainvoke does: it raises, or it returns a text
LLMResponses ==
    { [raises |-> TRUE, content |-> <<>>, doc |-> BasicDoc] }
    \cup { [raises |-> FALSE, content |-> c, doc |-> BasicDoc] : c \in Contents }
    \cup { [raises |-> FALSE, content |-> <<"{}">>, doc |-> d] : d \in Docs }

(* ----------------------- QueryDecomposer.decompose --------------------- *)

IsFence(tok) == tok = "FENCE_JSON" \/ tok = "FENCE"

\* s.split(FENCE)[0]: the part before the first fence of either kind
RECURSIVE BeforeFence(_)
BeforeFence(s) ==
    IF s = <<>> \/ IsFence(Head(s)) THEN <<>>
    ELSE <<Head(s)>> \o BeforeFence(Tail(s))

\* s.split(marker)[1] followed by .split(FENCE)[0]
RECURSIVE AfterMarker(_, _)
AfterMarker(s, marker) ==
    IF Head(s) = marker THEN BeforeFence(Tail(s))
    ELSE AfterMarker(Tail(s), marker)

Has(s, tok) == \E i \in 1..Len(s) : s[i] = tok

\* faulty variant: the response is parsed as it is, fences included
JsonMatch_Whole(content) == content

\* json_match
JsonMatch(content) ==
    IF Has(content, "FENCE_JSON") THEN AfterMarker(content, "FENCE_JSON")
    ELSE IF Has(content, "FENCE") THEN AfterMarker(content, "FENCE")
    ELSE content

\* str.strip()
RECURSIVE LStrip(_)
LStrip(s) == IF s # <<>> /\ Head(s) = " " THEN LStrip(Tail(s)) ELSE s

RECURSIVE RStrip(_)
RStrip(s) ==
    IF s # <<>> /\ s[Len(s)] = " " THEN RStrip(SubSeq(s, 1, Len(s) - 1)) ELSE s

Strip(s) == RStrip(LStrip(s))

\* json.loads succeeds on exactly one JSON value
JsonLoads(s) == s = <<"{}">>

\* faulty variant: a fallback dict that carries no search_queries
Fallback_NoQueries(query) ==
    [has_search_queries |-> FALSE, search_queries |-> <<>>]

\* the fallback both handlers return
Fallback(query) ==
    [has_search_queries |-> TRUE,
     search_queries |-> << [type |-> "dict", has_query |-> TRUE, query |-> query,
                            purpose |-> "primary"] >>]

\* the dict json.loads delivered, as decompose returns it
Parsed(resp) ==
    IF resp.doc.shape = "no_key"
    THEN [raised |-> FALSE, has_search_queries |-> FALSE, search_queries |-> <<>>]
    ELSE [raised |-> FALSE, has_search_queries |-> TRUE,
          search_queries |-> resp.doc.items]

\* a handler's return of the fallback
Caught(query) ==
    [raised |-> FALSE,
     has_search_queries |-> Fallback(query).has_search_queries,
     search_queries |-> Fallback(query).search_queries]

\* faulty variant: only json.JSONDecodeError is caught, any other exception
\* leaves decompose
decompose_OnlyJSONDecodeError(query, resp) ==
    IF resp.raises
    THEN [raised |-> TRUE, has_search_queries |-> FALSE, search_queries |-> <<>>]
    ELSE IF ~JsonLoads(Strip(JsonMatch(resp.content))) THEN Caught(query)
    ELSE IF resp.doc.shape \in { "array", "null_queries" }
    THEN [raised |-> TRUE, has_search_queries |-> FALSE, search_queries |-> <<>>]
    ELSE Parsed(resp)

\* QueryDecomposer.decompose: what it returns, and whether an exception
\* leaves it (raised).  llm.ainvoke raising, result.get on an array
\* (AttributeError) and len(None) (TypeError) are all inside the try and
\* end in except Exception; json.loads failing ends in except
\* json.JSONDecodeError.
decompose(query, resp) ==
    IF resp.raises THEN Caught(query)
    ELSE IF ~JsonLoads(Strip(JsonMatch(resp.content))) THEN Caught(query)
    ELSE IF resp.doc.shape \in { "array", "null_queries" } THEN Caught(query)
    ELSE Parsed(resp)

(* --------------------------- the run state ---------------------------- *)

\* initial_state of GeospatialSearchAgent.search.  final_results is <<>>
\* for the empty dict and <<r>> once aggregate has stored r.
InitialState(query) ==
    [original_query |-> query,
     decomposed_queries |-> <<>>,
     variable_results |-> <<>>,
     database_results |-> <<>>,
     final_results |-> <<>>,
     errors |-> <<>>]

\* no run in progress
NoRun == InitialState(<<>>)

(* ----------------------------- decompose ------------------------------ *)

\* _decompose_node: the try block on what decompose returned, the except
\* branch on an exception that left decompose
decompose_node(st, resp) ==
    LET decomposed == decompose(st.original_query, resp) IN
    IF decomposed.raised
    THEN [st EXCEPT !.errors = Append(@, [kind |-> "decomposition",
                                          subject |-> <<"str(e)">>]),
                    !.decomposed_queries =
                        << [type |-> "dict", has_query |-> TRUE,
                            query |-> st.original_query, purpose |-> "primary"] >>]
    ELSE [st EXCEPT !.decomposed_queries =
            IF decomposed.has_search_queries THEN decomposed.search_queries
            ELSE <<>>]

(* -------------------------- search_variables -------------------------- *)

\* a row as the dict the node stamps
Stamp(row, query, purpose) ==
    [id |-> row.id, dataset_name |-> row.dataset_name, table_name |-> row.table_name,
     geometry_type |-> row.geometry_type, row_count |-> row.row_count,
     column_list |-> row.column_list,
     search_query |-> query, search_purpose |-> purpose]

\* query_item.get("query", "")
ItemQuery(item) == IF item.has_query THEN item.query ELSE <<>>

\* query_item.get("purpose", "unknown")
ItemPurpose(item) == IF item.purpose = "ABSENT" THEN "unknown" ELSE item.purpose

\* faulty variant: a row already among the results is not taken again
AfterSearch_Dedup(acc, query, purpose, r) ==
    LET fresh == SelectSeq(r.rows, LAMBDA row :
                     \A k \in 1..Len(acc.results) : acc.results[k].id # row.id)
    IN [acc EXCEPT !.results = @ \o [i \in 1..Len(fresh) |->
                                        Stamp(fresh[i], query, purpose)],
                   !.errors = IF r.outcome = "raised"
                              THEN Append(@, [kind |-> "variable_search",
                                              subject |-> query])
                              ELSE @,
                   !.conn = r.conn, !.txn = r.txn,
                   !.log = Append(@, [query |-> query, purpose |-> purpose,
                                      outcome |-> r.outcome, failed |-> r.failed,
                                      rows |-> r.rows])]

\* faulty variant: the matches of a sub-query are put before those of the
\* earlier sub-queries
AfterSearch_Prepend(acc, query, purpose, r) ==
    [acc EXCEPT !.results = [i \in 1..Len(r.rows) |->
                                Stamp(r.rows[i], query, purpose)] \o @,
                !.errors = IF r.outcome = "raised"
                           THEN Append(@, [kind |-> "variable_search",
                                           subject |-> query])
                           ELSE @,
                !.conn = r.conn, !.txn = r.txn,
                !.log = Append(@, [query |-> query, purpose |-> purpose,
                                   outcome |-> r.outcome, failed |-> r.failed,
                                   rows |-> r.rows])]

\* one iteration's try block, given what search_metadata did (r).  acc
\* carries results, state["errors"], the connection, and log: the record
\* of what the store did for each sub-query, kept for the properties.
AfterSearch(acc, query, purpose, r) ==
    IF r.outcome = "raised"
    THEN [acc EXCEPT !.errors = Append(@, [kind |-> "variable_search", subject |-> query]),
                     !.conn = r.conn, !.txn = r.txn,
                     !.log = Append(@, [query |-> query, purpose |-> purpose,
                                        outcome |-> "raised", failed |-> TRUE,
                                        rows |-> <<>>])]
    ELSE [acc EXCEPT !.results = @ \o [i \in 1..Len(r.rows) |->
                                          Stamp(r.rows[i], query, purpose)],
                     !.conn = r.conn, !.txn = r.txn,
                     !.log = Append(@, [query |-> query, purpose |-> purpose,
                                        outcome |-> "returned", failed |-> r.failed,
                                        rows |-> r.rows])]

\* faulty variant: the loop ends at the first search that raises
RECURSIVE search_variables_loop_Break(_, _)
search_variables_loop_Break(items, acc) ==
    IF items = <<>> THEN { acc }
    ELSE IF Head(items).type # "dict" THEN { [acc EXCEPT !.raised = TRUE] }
    ELSE LET query == ItemQuery(Head(items))
             purpose == ItemPurpose(Head(items))
             calls == UNION { search_metadata(acc.conn, acc.txn, <<query>>, "",
                                              SEARCH_LIMIT, f) : f \in Faults }
         IN UNION { IF r.outcome = "raised"
                    THEN { AfterSearch(acc, query, purpose, r) }
                    ELSE search_variables_loop_Break(Tail(items),
                             AfterSearch(acc, query, purpose, r)) :
                    r \in calls }

\* the for loop of _search_variables_node: every way it can end.  An item
\* without .get raises AttributeError outside the try and ends the node.
RECURSIVE search_variables_loop(_, _)
search_variables_loop(items, acc) ==
    IF items = <<>> THEN { acc }
    ELSE IF Head(items).type # "dict" THEN { [acc EXCEPT !.raised = TRUE] }
    ELSE LET query == ItemQuery(Head(items))
             purpose == ItemPurpose(Head(items))
             calls == UNION { search_metadata(acc.conn, acc.txn, <<query>>, "",
                                              SEARCH_LIMIT, f) : f \in Faults }
         IN UNION { search_variables_loop(Tail(items),
                                          AfterSearch(acc, query, purpose, r)) :
                    r \in calls }

(* -------------------------- search_database --------------------------- *)

TableNames == { row.table_name : row \in Catalog }

\* the orders in which a Python set of table names may be iterated: the
\* order follows the strings' hashes, which are seeded per process
HashOrders ==
    { << <<"a">>, <<"b">>, <<"c">>, <<"d">>, <<"e">>, <<"g">> >>,
      << <<"g">>, <<"e">>, <<"d">>, <<"c">>, <<"b">>, <<"a">> >>,
      << <<"d">>, <<"a">>, <<"g">>, <<"b">>, <<"e">>, <<"c">> >> }

\* list(tables)
SetList(tables, order) ==
    LET RECURSIVE pick(_)
        pick(o) == IF o = <<>> THEN <<>>
                   ELSE IF Head(o) \in tables THEN <<Head(o)>> \o pick(Tail(o))
                   ELSE pick(Tail(o))
    IN pick(order)

\* tables: the truthy table_name of every variable result
ResultTables(variable_results) ==
    { variable_results[i].table_name : i \in 1..Len(variable_results) } \ { <<>> }

\* the entry appended for one table; sample.empty is an empty frame
SampleEntry(table_name, sample) ==
    [table_name |-> table_name,
     sample_data |-> IF sample.rows # 0 THEN sample.rows ELSE 0,
     columns |-> IF sample.rows # 0 THEN sample.columns ELSE <<>>]

\* faulty variant: every table is sampled, the cut to the first 5 is missing
search_database_node_NoLimit(st, e, order) ==
    LET top == SetList(ResultTables(st.variable_results), order) IN
    [st EXCEPT !.database_results =
        [i \in 1..Len(top) |->
            SampleEntry(top[i], get_table_sample(e, top[i], SAMPLE_LIMIT, "none"))]]

\* faulty variant: the tables are taken from the results as they come, not from
\* the set of their names
search_database_node_PerMatch(st, e, order) ==
    LET top == Take([i \in 1..Len(st.variable_results) |->
                        st.variable_results[i].table_name], TOP_TABLES) IN
    [st EXCEPT !.database_results =
        [i \in 1..Len(top) |->
            SampleEntry(top[i], get_table_sample(e, top[i], SAMPLE_LIMIT, "none"))]]

\* _search_database_node.  get_table_sample never raises, so the except
\* branch appends nothing.
search_database_node(st, e, order) ==
    LET top == Take(SetList(ResultTables(st.variable_results), order), TOP_TABLES) IN
    [st EXCEPT !.database_results =
        [i \in 1..Len(top) |->
            SampleEntry(top[i], get_table_sample(e, top[i], SAMPLE_LIMIT, "none"))]]

(* ----------------------------- aggregate ------------------------------ *)

\* faulty variant: a group is replaced by its latest match instead of extended
RECURSIVE GroupByPurpose_Overwrite(_, _)
GroupByPurpose_Overwrite(results, by_purpose) ==
    IF results = <<>> THEN by_purpose
    ELSE LET purpose == Head(results).search_purpose
             started == IF purpose \in DOMAIN by_purpose THEN by_purpose
                        ELSE by_purpose @@ (purpose :> <<>>)
         IN GroupByPurpose_Overwrite(Tail(results),
                           [started EXCEPT ![purpose] = <<Head(results)>>])

\* the grouping loop: by_purpose after the given results
RECURSIVE GroupByPurpose(_, _)
GroupByPurpose(results, by_purpose) ==
    IF results = <<>> THEN by_purpose
    ELSE LET purpose == Head(results).search_purpose
             started == IF purpose \in DOMAIN by_purpose THEN by_purpose
                        ELSE by_purpose @@ (purpose :> <<>>)
         IN GroupByPurpose(Tail(results),
                           [started EXCEPT ![purpose] = Append(@, Head(results))])

\* purpose not in by_purpose  raises TypeError for an unhashable purpose
AggregateRaises(st) ==
    \E i \in 1..Len(st.variable_results) : st.variable_results[i].search_purpose = "LIST"

\* state["final_results"]
FinalResults(st) ==
    [query |-> st.original_query,
     decomposition |-> st.decomposed_queries,
     results_by_purpose |-> GroupByPurpose(st.variable_results, <<>>),
     available_tables |-> [i \in 1..Len(st.database_results) |->
                              st.database_results[i].table_name],
     total_matches |-> Len(st.variable_results),
     errors |-> st.errors]

aggregate_results_node(st) == [st EXCEPT !.final_results = <<FinalResults(st)>>]

(* ------------------------ direct store calls -------------------------- *)

\* terms, geometry types and limits of direct search_metadata calls
TermSet == { <<"v">>, <<"S">>, <<"_">> }

GeometryTypes == { "", "POLYGON", "POINT" }

Limits == { 1, DEFAULT_LIMIT }

\* column patterns and limits of the direct search_columns calls
PatternSet == { <<"f">>, <<"v">>, <<"_">> }

ColumnLimits == { 1, COLUMNS_LIMIT }

(* ------------------------------ actions ------------------------------- *)

\* nothing of the other specifications is in progress
ServicesIdle ==
    /\ runs = <<>>
    /\ parsed = <<>>
    /\ api = <<>>
    /\ train = <<>>
    /\ factors = <<>>
    /\ chat = <<>>

Init ==
    /\ conn = "none"
    /\ txn = FALSE
    /\ engine = "none"
    /\ hash_order \in HashOrders
    /\ pc = "idle"
    /\ state = NoRun
    /\ llm = <<>>
    /\ search_log = <<>>
    /\ last_call = <<>>
    /\ visited = <<>>
    /\ store = InitialStore
    /\ ServicesIdle

\* PostGISSearcher.connect (a failed connect raises and changes nothing)
Connect ==
    /\ pc = "idle"
    /\ conn' = "open"
    /\ txn' = FALSE
    /\ engine' = "ready"
    /\ last_call' = <<>>
    /\ UNCHANGED <<hash_order, pc, state, llm, search_log, visited, store>>
    /\ UNCHANGED services

\* PostGISSearcher.disconnect: conn.close() if there is a connection;
\* engine.dispose() leaves an engine that opens a new pool when used
Disconnect ==
    /\ pc = "idle"
    /\ conn' = IF conn = "none" THEN "none" ELSE "closed"
    /\ txn' = FALSE
    /\ last_call' = <<>>
    /\ UNCHANGED <<engine, hash_order, pc, state, llm, search_log, visited, store>>
    /\ UNCHANGED services

CallSearchMetadata ==
    /\ pc = "idle"
    /\ \E terms \in SeqsUpTo(TermSet, MaxTerms), g \in GeometryTypes,
          limit \in Limits, f \in Faults :
          \E r \in search_metadata(conn, txn, terms, g, limit, f) :
             /\ conn' = r.conn
             /\ txn' = r.txn
             /\ last_call' = << [op |-> "search_metadata", terms |-> terms,
                                 geometry_type |-> g, limit |-> limit,
                                 outcome |-> r.outcome, failed |-> r.failed,
                                 rows |-> r.rows, txn |-> r.txn] >>
    /\ store' = Select(store)
    /\ UNCHANGED <<engine, hash_order, pc, state, llm, search_log, visited>>
    /\ UNCHANGED services

\* PostGISSearcher.search_columns called directly
CallSearchColumns ==
    /\ pc = "idle"
    /\ \E patterns \in SeqsUpTo(PatternSet, MaxPatterns), limit \in ColumnLimits,
          f \in Faults :
          \E r \in search_columns(conn, txn, patterns, limit, f) :
             /\ conn' = r.conn
             /\ txn' = r.txn
             /\ last_call' = << [op |-> "search_columns", patterns |-> patterns,
                                 limit |-> limit, outcome |-> r.outcome,
                                 failed |-> r.failed, rows |-> r.rows,
                                 txn |-> r.txn] >>
    /\ store' = Select(store)
    /\ UNCHANGED <<engine, hash_order, pc, state, llm, search_log, visited>>
    /\ UNCHANGED services

\* execute_spatial_query, get_statistics
CallCursorOperation ==
    /\ pc = "idle"
    /\ \E op \in { "execute_spatial_query", "get_statistics" },
          f \in Faults :
          LET r == cursor_operation(conn, txn, f) IN
             /\ conn' = r.conn
             /\ txn' = r.txn
             /\ last_call' = << [op |-> op, outcome |-> r.outcome,
                                 result |-> r.result] >>
    /\ store' = Select(store)
    /\ UNCHANGED <<engine, hash_order, pc, state, llm, search_log, visited>>
    /\ UNCHANGED services

CallGetTableSample ==
    /\ pc = "idle"
    /\ \E t \in TableNames, f \in Faults :
          last_call' = << [op |-> "get_table_sample", outcome |-> "returned",
                          frame |-> get_table_sample(engine, t, SAMPLE_LIMIT, f)] >>
    /\ store' = Select(store)
    /\ UNCHANGED <<conn, txn, engine, hash_order, pc, state, llm, search_log, visited>>
    /\ UNCHANGED services

CallJoinTablesByFips ==
    /\ pc = "idle"
    /\ \E t1 \in { <<"a">>, <<"e">> }, t2 \in { <<"b">> }, f \in Faults :
          last_call' = << [op |-> "join_tables_by_fips", outcome |-> "returned",
                          frame |-> join_tables_by_fips(engine, t1, t2, f)] >>
    /\ store' = Select(store)
    /\ UNCHANGED <<conn, txn, engine, hash_order, pc, state, llm, search_log, visited>>
    /\ UNCHANGED services

\* GeospatialSearchAgent.search up to graph.ainvoke
Search ==
    /\ pc = "idle"
    /\ \E query \in Queries : state' = InitialState(query)
    /\ pc' = "decompose"
    /\ llm' = <<>>
    /\ search_log' = <<>>
    /\ last_call' = <<>>
    /\ visited' = <<>>
    /\ UNCHANGED <<conn, txn, engine, hash_order, store>>
    /\ UNCHANGED services

Decompose ==
    /\ pc = "decompose"
    /\ \E resp \in LLMResponses :
          /\ state' = decompose_node(state, resp)
          /\ llm' = <<resp>>
    /\ pc' = "search_variables"
    /\ visited' = Append(visited, "decompose")
    /\ UNCHANGED <<conn, txn, engine, hash_order, search_log, last_call, store>>
    /\ UNCHANGED services

SearchVariables ==
    /\ pc = "search_variables"
    /\ \E out \in search_variables_loop(state.decomposed_queries,
                       [results |-> <<>>, errors |-> state.errors, conn |-> conn,
                        txn |-> txn, log |-> <<>>, raised |-> FALSE]) :
          /\ conn' = out.conn
          /\ txn' = out.txn
          /\ search_log' = out.log
          /\ IF out.raised
             THEN /\ state' = [state EXCEPT !.errors = out.errors]
                  /\ pc' = "raised"
             ELSE /\ state' = [state EXCEPT !.variable_results = out.results,
                                            !.errors = out.errors]
                  /\ pc' = "search_database"
    /\ visited' = Append(visited, "search_variables")
    /\ store' = Select(store)
    /\ UNCHANGED <<engine, hash_order, llm, last_call>>
    /\ UNCHANGED services

SearchDatabase ==
    /\ pc = "search_database"
    /\ state' = search_database_node(state, engine, hash_order)
    /\ pc' = "aggregate_results"
    /\ visited' = Append(visited, "search_database")
    /\ store' = Select(store)
    /\ UNCHANGED <<conn, txn, engine, hash_order, llm, search_log, last_call>>
    /\ UNCHANGED services

Aggregate ==
    /\ pc = "aggregate_results"
    /\ IF AggregateRaises(state)
       THEN /\ pc' = "raised"
            /\ UNCHANGED state
       ELSE /\ pc' = "done"
            /\ state' = aggregate_results_node(state)
    /\ visited' = Append(visited, "aggregate_results")
    /\ UNCHANGED <<conn, txn, engine, hash_order, llm, search_log, last_call, store>>
    /\ UNCHANGED services

\* search returns final_state["final_results"], or the exception of a node
\* leaves graph.ainvoke and search; the run's state is dropped
Return ==
    /\ pc \in { "done", "raised" }
    /\ pc' = "idle"
    /\ state' = NoRun
    /\ llm' = <<>>
    /\ search_log' = <<>>
    /\ visited' = <<>>
    /\ UNCHANGED <<conn, txn, engine, hash_order, last_call, store>>
    /\ UNCHANGED services

\* _build_graph: the nodes in the order of the edges, from the entry point
\* to END
Nodes == <<"decompose", "search_variables", "search_database", "aggregate_results">>

Next ==
    \/ Connect
    \/ Disconnect
    \/ CallSearchMetadata
    \/ CallSearchColumns
    \/ CallCursorOperation
    \/ CallGetTableSample
    \/ CallJoinTablesByFips
    \/ Search
    \/ Decompose
    \/ SearchVariables
    \/ SearchDatabase
    \/ Aggregate
    \/ Return

Spec == Init /\ [][Next]_vars

(* ======================= two runs of one agent ======================== *)

RunIds == { 1, 2 }

\* the query of each run
RunQuery(r) == IF r = 1 THEN <<"v", "n">> ELSE <<"S">>

\* what the language model answers in these runs: the call raises, the
\* two sub-queries poverty / population, or one sub-query without purpose
RunResponses ==
    { [raises |-> TRUE, content |-> <<>>, doc |-> BasicDoc],
      [raises |-> FALSE, content |-> <<"{}">>, doc |-> BasicDoc],
      [raises |-> FALSE, content |-> <<"{}">>,
       doc |-> [shape |-> "list",
                items |-> << [type |-> "dict", has_query |-> TRUE,
                              query |-> <<"f">>, purpose |-> "ABSENT"] >>]] }

\* a run that search has not been called for
NotStarted ==
    [pc |-> "idle", state |-> NoRun, llm |-> <<>>, log |-> <<>>,
     overlapped |-> FALSE]

\* faulty variant: one state dict kept on the agent and used by every run
OwnState_Shared(rs, r) == rs[1].state

\* the state dict of a run: initial_state is built inside search, once
\* per call, and handed from node to node by the graph
OwnState(rs, r) == rs[r].state

\* the run is between two of its nodes
InProgress(r) ==
    runs[r].pc \in { "decompose", "search_variables", "search_database",
                     "aggregate_results" }

\* run r takes a step: its new position and state; the step overlaps the
\* other run when that run is between two of its nodes
Step(r, position, st, response, log) ==
    [runs EXCEPT ![r] = [pc |-> position, state |-> st, llm |-> response,
                         log |-> log,
                         overlapped |-> @.overlapped
                                        \/ \E o \in RunIds \ {r} : InProgress(o)]]

\* both runs on a connected agent
InitRuns ==
    /\ conn = "open"
    /\ txn = FALSE
    /\ engine = "ready"
    /\ hash_order = CHOOSE order \in HashOrders : TRUE
    /\ pc = "idle"
    /\ state = NoRun
    /\ llm = <<>>
    /\ search_log = <<>>
    /\ last_call = <<>>
    /\ visited = <<>>
    /\ store = InitialStore
    /\ runs = [r \in RunIds |-> NotStarted]
    /\ parsed = <<>>
    /\ api = <<>>
    /\ train = <<>>
    /\ factors = <<>>
    /\ chat = <<>>

\* GeospatialSearchAgent.search up to graph.ainvoke
StartRun ==
    /\ \E r \in RunIds :
          /\ runs[r].pc = "idle"
          /\ runs' = Step(r, "decompose", InitialState(RunQuery(r)), <<>>, <<>>)
    /\ UNCHANGED <<pipeline, parsed, api, train, factors, chat>>

RunDecompose ==
    /\ \E r \in RunIds, resp \in RunResponses :
          /\ runs[r].pc = "decompose"
          /\ runs' = Step(r, "search_variables",
                          decompose_node(OwnState(runs, r), resp), <<resp>>, <<>>)
    /\ UNCHANGED <<pipeline, parsed, api, train, factors, chat>>

RunSearchVariables ==
    /\ \E r \in RunIds :
          /\ runs[r].pc = "search_variables"
          /\ LET st == OwnState(runs, r) IN
             \E out \in search_variables_loop(st.decomposed_queries,
                           [results |-> <<>>, errors |-> st.errors, conn |-> conn,
                            txn |-> txn, log |-> <<>>, raised |-> FALSE]) :
                /\ conn' = out.conn
                /\ txn' = out.txn
                /\ runs' = IF out.raised
                           THEN Step(r, "raised", [st EXCEPT !.errors = out.errors],
                                     runs[r].llm, out.log)
                           ELSE Step(r, "search_database",
                                     [st EXCEPT !.variable_results = out.results,
                                                !.errors = out.errors],
                                     runs[r].llm, out.log)
    /\ store' = Select(store)
    /\ UNCHANGED <<engine, hash_order, pc, state, llm, search_log, last_call, visited>>
    /\ UNCHANGED <<parsed, api, train, factors, chat>>

RunSearchDatabase ==
    /\ \E r \in RunIds :
          /\ runs[r].pc = "search_database"
          /\ runs' = Step(r, "aggregate_results",
                          search_database_node(OwnState(runs, r), engine, hash_order),
                          runs[r].llm, runs[r].log)
    /\ store' = Select(store)
    /\ UNCHANGED <<conn, txn, engine, hash_order, pc, state, llm, search_log,
                   last_call, visited>>
    /\ UNCHANGED <<parsed, api, train, factors, chat>>

RunAggregate ==
    /\ \E r \in RunIds :
          /\ runs[r].pc = "aggregate_results"
          /\ LET st == OwnState(runs, r) IN
             runs' = IF AggregateRaises(st)
                     THEN Step(r, "raised", st, runs[r].llm, runs[r].log)
                     ELSE Step(r, "done", aggregate_results_node(st),
                               runs[r].llm, runs[r].log)
    /\ UNCHANGED <<pipeline, parsed, api, train, factors, chat>>

NextRuns ==
    \/ StartRun
    \/ RunDecompose
    \/ RunSearchVariables
    \/ RunSearchDatabase
    \/ RunAggregate

SpecRuns == InitRuns /\ [][NextRuns]_vars

(* ========================= the API functions ========================== *)

\* query_json: a text that is no JSON, JSON values that are no object
\* (an array, null), and objects with or without the keys read
ApiInputs ==
    { [kind |-> "invalid", has_query |-> FALSE, query |-> <<>>,
       has_terms |-> FALSE, terms |-> <<>>, geometry_type |-> ""],
      [kind |-> "array", has_query |-> FALSE, query |-> <<>>,
       has_terms |-> FALSE, terms |-> <<>>, geometry_type |-> ""],
      [kind |-> "null", has_query |-> FALSE, query |-> <<>>,
       has_terms |-> FALSE, terms |-> <<>>, geometry_type |-> ""],
      [kind |-> "object", has_query |-> FALSE, query |-> <<>>,
       has_terms |-> FALSE, terms |-> <<>>, geometry_type |-> ""],
      [kind |-> "object", has_query |-> TRUE, query |-> <<"S">>,
       has_terms |-> TRUE, terms |-> << <<"S">> >>, geometry_type |-> ""],
      [kind |-> "object", has_query |-> TRUE, query |-> <<"v", "n">>,
       has_terms |-> TRUE, terms |-> << <<"v">>, <<"S">> >>,
       geometry_type |-> "POLYGON"] }

\* the language model's answers during an API call: those of RunResponses
\* and a search_queries list holding a string
ApiResponses ==
    RunResponses
    \cup { [raises |-> FALSE, content |-> <<"{}">>,
            doc |-> [shape |-> "list",
                     items |-> << [type |-> "str", has_query |-> FALSE,
                                   query |-> <<>>, purpose |-> "ABSENT"] >>]] }

ApiFunctions == { "decompose_query_api", "search_metadata_api", "full_search_api" }

\* json.loads(query_json) followed by data.get: raises on a text that is
\* no JSON (JSONDecodeError) and on a value without .get (AttributeError)
InputRaises(input) == input.kind # "object"

\* faulty variant: the handler lets the exception go on to the caller
ApiHandler_Reraise(exception) ==
    [raised |-> TRUE, is_object |-> FALSE, has_error |-> FALSE,
     value |-> exception]

\* except Exception as e: return json.dumps({"error": str(e)})
ApiHandler(exception) ==
    [raised |-> FALSE, is_object |-> TRUE, has_error |-> TRUE,
     value |-> exception]

\* return json.dumps(result): the JSON text of a dict or of a list
ApiReturn(shape, result) ==
    [raised |-> FALSE, is_object |-> shape = "dict", has_error |-> FALSE,
     value |-> result]

\* GeospatialSearchAgent.search on connection state (c, t): every way the
\* run of the four nodes can end, with what it leaves of the connection
search_run(query, resp, c, t, e, order) ==
    LET decomposed == decompose_node(InitialState(query), resp) IN
    { IF out.raised
      THEN [raised |-> TRUE, final |-> <<>>, conn |-> out.conn, txn |-> out.txn]
      ELSE LET sampled == search_database_node(
                              [decomposed EXCEPT !.variable_results = out.results,
                                                 !.errors = out.errors], e, order)
           IN IF AggregateRaises(sampled)
              THEN [raised |-> TRUE, final |-> <<>>, conn |-> out.conn,
                    txn |-> out.txn]
              ELSE [raised |-> FALSE, final |-> << FinalResults(sampled) >>,
                    conn |-> out.conn, txn |-> out.txn] :
      out \in search_variables_loop(decomposed.decomposed_queries,
                 [results |-> <<>>, errors |-> decomposed.errors, conn |-> c,
                  txn |-> t, log |-> <<>>, raised |-> FALSE]) }

\* a call of one API function on an agent that is connected or not
InitApi ==
    /\ conn \in { "none", "open" }
    /\ txn = FALSE
    /\ engine = (IF conn = "open" THEN "ready" ELSE "none")
    /\ hash_order = CHOOSE order \in HashOrders : TRUE
    /\ pc = "idle"
    /\ state = NoRun
    /\ llm = <<>>
    /\ search_log = <<>>
    /\ last_call = <<>>
    /\ visited = <<>>
    /\ store = InitialStore
    /\ api \in { [fn |-> f, input |-> i, reply |-> <<>>, exception |-> FALSE] :
                   f \in ApiFunctions, i \in ApiInputs }
    /\ runs = <<>>
    /\ parsed = <<>>
    /\ train = <<>>
    /\ factors = <<>>
    /\ chat = <<>>

\* decompose_query_api.  decompose_sync is asyncio.run(decompose(query)),
\* which raises RuntimeError when an event loop is running in the thread.
DecomposeQueryApi ==
    /\ api.fn = "decompose_query_api"
    /\ api.reply = <<>>
    /\ \E resp \in ApiResponses, loop_running \in BOOLEAN :
          LET query == IF api.input.has_query THEN api.input.query ELSE <<>>
              result == decompose(query, resp)
              raises == InputRaises(api.input) \/ loop_running \/ result.raised
          IN api' = [api EXCEPT
                        !.exception = raises,
                        !.reply = IF raises THEN << ApiHandler("exception") >>
                                  ELSE << ApiReturn("dict", result) >>]
    /\ UNCHANGED <<pipeline, runs, parsed, train, factors, chat>>

\* search_metadata_api
SearchMetadataApi ==
    /\ api.fn = "search_metadata_api"
    /\ api.reply = <<>>
    /\ IF InputRaises(api.input)
       THEN /\ api' = [api EXCEPT !.exception = TRUE,
                                  !.reply = << ApiHandler("exception") >>]
            /\ UNCHANGED <<conn, txn>>
       ELSE \E f \in Faults :
               \E r \in search_metadata(conn, txn,
                            IF api.input.has_terms THEN api.input.terms ELSE <<>>,
                            api.input.geometry_type, DEFAULT_LIMIT, f) :
                  /\ conn' = r.conn
                  /\ txn' = r.txn
                  /\ api' = [api EXCEPT
                                !.exception = (r.outcome = "raised"),
                                !.reply = IF r.outcome = "raised"
                                          THEN << ApiHandler("exception") >>
                                          ELSE << ApiReturn("list", r.rows) >>]
    /\ store' = Select(store)
    /\ UNCHANGED <<engine, hash_order, pc, state, llm, search_log, last_call, visited>>
    /\ UNCHANGED <<runs, parsed, train, factors, chat>>

\* full_search_api.  search_sync is asyncio.run(search(query)).
FullSearchApi ==
    /\ api.fn = "full_search_api"
    /\ api.reply = <<>>
    /\ IF InputRaises(api.input)
       THEN /\ api' = [api EXCEPT !.exception = TRUE,
                                  !.reply = << ApiHandler("exception") >>]
            /\ UNCHANGED <<conn, txn>>
       ELSE \E resp \in ApiResponses :
               \E r \in search_run(IF api.input.has_query THEN api.input.query
                                   ELSE <<>>, resp, conn, txn, engine, hash_order) :
                  /\ conn' = r.conn
                  /\ txn' = r.txn
                  /\ api' = [api EXCEPT
                                !.exception = r.raised,
                                !.reply = IF r.raised
                                          THEN << ApiHandler("exception") >>
                                          ELSE << ApiReturn("dict", r.final[1]) >>]
    /\ store' = Select(store)
    /\ UNCHANGED <<engine, hash_order, pc, state, llm, search_log, last_call, visited>>
    /\ UNCHANGED <<runs, parsed, train, factors, chat>>

NextApi ==
    \/ DecomposeQueryApi
    \/ SearchMetadataApi
    \/ FullSearchApi

SpecApi == InitApi /\ [][NextApi]_vars

(* =============== decompose on its own: fenced responses =============== *)

\* the searcher was never connected and no run is in progress
PipelineIdle ==
    /\ conn = "none"
    /\ txn = FALSE
    /\ engine = "none"
    /\ hash_order = CHOOSE order \in HashOrders : TRUE
    /\ pc = "idle"
    /\ state = NoRun
    /\ llm = <<>>
    /\ search_log = <<>>
    /\ last_call = <<>>
    /\ visited = <<>>
    /\ store = InitialStore

\* the response texts: every sequence of tokens up to the bound
FenceContents == SeqsUpTo(Tokens, MaxFenceTokens)

\* the query handed to decompose
FenceQuery == <<"S">>

\* response.content of a call that returned
FenceResponse(content) == [raises |-> FALSE, content |-> content, doc |-> BasicDoc]

InitFence ==
    /\ PipelineIdle
    /\ parsed \in { [content |-> c, result |-> <<>>] : c \in FenceContents }
    /\ runs = <<>>
    /\ api = <<>>
    /\ train = <<>>
    /\ factors = <<>>
    /\ chat = <<>>

\* QueryDecomposer.decompose on the response text
ParseResponse ==
    /\ parsed.result = <<>>
    /\ parsed' = [parsed EXCEPT !.result =
                     << decompose(FenceQuery, FenceResponse(parsed.content)) >>]
    /\ UNCHANGED <<pipeline, runs, api, train, factors, chat>>

NextFence == ParseResponse

SpecFence == InitFence /\ [][NextFence]_vars

(* ===================== the AutoML service: train ===================== *)

\* one upload: whether the file parses as CSV, whether it has the target
\* column, its rows and how many of them have a null target, and whether
\* autogluon can be imported
Uploads ==
    { [parses |-> p, has_target |-> h, installed |-> i, rows |-> n,
       null_targets |-> k] :
        p \in BOOLEAN, h \in BOOLEAN, i \in BOOLEAN, n \in 0..MaxRows,
        k \in 0..MaxRows }

\* split_idx = int(len(df) * 0.8)
SplitIdx(len) == (len * 8) \div 10

\* faulty variant: the directory is removed at the end of the try block,
\* so only when nothing was raised
Cleanup_OnSuccessOnly(t) ==
    IF t.failure = "none" THEN [t EXCEPT !.tmp_dir = "removed"] ELSE t

\* finally: shutil.rmtree(tmp_dir, ignore_errors=True)
Cleanup(t) == [t EXCEPT !.tmp_dir = "removed"]

\* the request has been received; nothing of the handler has run
InitTrain ==
    /\ PipelineIdle
    /\ train \in { [pc |-> "read", upload |-> u, df_len |-> 0, tmp_dir |-> "none",
                     fit_started |-> <<>>, failure |-> "none", status |-> 0] :
                    u \in { v \in Uploads : v.null_targets <= v.rows } }
    /\ runs = <<>>
    /\ parsed = <<>>
    /\ api = <<>>
    /\ factors = <<>>
    /\ chat = <<>>

\* 1. read and parse the CSV
ReadCsv ==
    /\ train.pc = "read"
    /\ train' = IF train.upload.parses
                THEN [train EXCEPT !.pc = "validate", !.df_len = train.upload.rows]
                ELSE [train EXCEPT !.pc = "responded", !.status = 400]
    /\ UNCHANGED <<pipeline, runs, parsed, api, factors, chat>>

\* the target column and row count checks, then dropna on the target
Validate ==
    /\ train.pc = "validate"
    /\ train' = IF ~train.upload.has_target \/ train.df_len < MIN_ROWS
                THEN [train EXCEPT !.pc = "responded", !.status = 400]
                ELSE [train EXCEPT !.pc = "import",
                                   !.df_len = @ - train.upload.null_targets]
    /\ UNCHANGED <<pipeline, runs, parsed, api, factors, chat>>

\* the import of autogluon, then tempfile.mkdtemp
ImportAndMkdtemp ==
    /\ train.pc = "import"
    /\ train' = IF train.upload.installed
                THEN [train EXCEPT !.pc = "fit", !.tmp_dir = "exists"]
                ELSE [train EXCEPT !.pc = "responded", !.status = 503]
    /\ UNCHANGED <<pipeline, runs, parsed, api, factors, chat>>

\* TabularPredictor(...).fit(train_data=train_df): it returns or raises;
\* without training rows it raises
Fit ==
    /\ train.pc = "fit"
    /\ \E outcome \in { "none", "error" } :
          /\ (SplitIdx(train.df_len) = 0 => outcome = "error")
          /\ train' = [train EXCEPT
                          !.fit_started = << train.df_len >>,
                          !.failure = outcome,
                          !.pc = IF outcome = "none" THEN "evaluate" ELSE "finally"]
    /\ UNCHANGED <<pipeline, runs, parsed, api, factors, chat>>

\* 4. leaderboard, metrics, chart data: the block ends, raises an
\* Exception, or raises an HTTPException
Evaluate ==
    /\ train.pc = "evaluate"
    /\ \E outcome \in { "none", "error", "http_exception" } :
          train' = [train EXCEPT !.failure = outcome, !.pc = "finally"]
    /\ UNCHANGED <<pipeline, runs, parsed, api, factors, chat>>

\* the finally block
Finally ==
    /\ train.pc = "finally"
    /\ train' = [Cleanup(train) EXCEPT !.pc = "respond"]
    /\ UNCHANGED <<pipeline, runs, parsed, api, factors, chat>>

\* the JSONResponse, the HTTPException(500) of the handler, or the
\* HTTPException that was raised again
Respond ==
    /\ train.pc = "respond"
    /\ train' = [train EXCEPT
                    !.pc = "responded",
                    !.status = CASE train.failure = "none" -> 200
                                 [] train.failure = "error" -> 500
                                 [] OTHER -> 400]
    /\ UNCHANGED <<pipeline, runs, parsed, api, factors, chat>>

NextTrain ==
    \/ ReadCsv
    \/ Validate
    \/ ImportAndMkdtemp
    \/ Fit
    \/ Evaluate
    \/ Finally
    \/ Respond

SpecTrain == InitTrain /\ [][NextTrain]_vars

(* ================= the factor script: parse_final_response ============== *)

\* the lines a final response is made of, as tokens: a factor line, a
\* factor after other text with nothing behind the colon, and a factor
\* line with an empty name
Lines ==
    { << ">>> ", "**", "n", "**", ": ", "t" >>,
      << "t", ">>> ", "**", "n", "**", ": " >>,
      << ">>> ", "**", "**", ": ", "t" >> }

FinalResponses == UNION { [ 1..n -> Lines ] : n \in 0..MaxLines }

\* FINAL_RESPONSE_REGEX: the positions of a line where the pattern
\* >>> **name**: matches, the name being one or more characters that are
\* no star
MatchStarts(line) ==
    { i \in 1..Len(line) :
        /\ line[i] = ">>> "
        /\ i + 1 <= Len(line)
        /\ line[i + 1] = "**"
        /\ \E j \in (i + 3)..(Len(line) - 1) :
              /\ line[j] = "**"
              /\ \A k \in (i + 2)..(j - 1) : line[k] # "**"
              /\ line[j + 1] = ": " }

\* re.findall(FINAL_RESPONSE_REGEX, final_response): of every line with a
\* match, the text from the first match to the end of the line
RECURSIVE FindAll(_)
FindAll(response) ==
    IF response = <<>> THEN <<>>
    ELSE LET line == Head(response)
             starts == MatchStarts(line)
         IN  IF starts = {}
             THEN FindAll(Tail(response))
             ELSE LET first == CHOOSE i \in starts : \A k \in starts : i <= k
                  IN  << SubSeq(line, first, Len(line)) >> \o FindAll(Tail(response))

\* parse_final_response: what it returns, None included
parse_final_response(final_response) ==
    LET matches == FindAll(final_response)
    IN  IF matches # <<>>
        THEN IF Len(matches) > MAX_FACTORS
             THEN [is_none |-> TRUE, value |-> <<>>]
             ELSE [is_none |-> FALSE, value |-> matches]
        ELSE [is_none |-> TRUE, value |-> <<>>]

InitFactors ==
    /\ PipelineIdle
    /\ factors \in { [pc |-> "called", final_response |-> r,
                       returned |-> [is_none |-> TRUE, value |-> <<>>]] :
                      r \in FinalResponses }
    /\ runs = <<>>
    /\ parsed = <<>>
    /\ api = <<>>
    /\ train = <<>>
    /\ chat = <<>>

ParseFinalResponse ==
    /\ factors.pc = "called"
    /\ factors' = [factors EXCEPT
                      !.pc = "returned",
                      !.returned = parse_final_response(factors.final_response)]
    /\ UNCHANGED <<pipeline, runs, parsed, api, train, chat>>

NextFactors == ParseFinalResponse

SpecFactors == InitFactors /\ [][NextFactors]_vars

(* ============== the semantic search service: /api/search ============== *)

\* the clients whose requests the threaded server handles, one thread each
Clients == { "A", "B" }

\* request.args.get('q', '').strip()
ClientQueries(c) == { <<>>, << "q", c >> }

\* SystemMessage(content=self.system_prompt)
SystemMessage == [role |-> "system", content |-> << "system_prompt" >>]

\* search_prompt = f"""Find the top 20 most relevant variables ... "{query}" ..."""
SearchPrompt(query) == << "Find the top 20" >> \o query \o << "Steps" >>

HumanMessage(content) == [role |-> "human", content |-> content]

\* AIMessage(content=response["output"]): the output answers the last
\* message of the history the agent was handed
AIMessage(history) ==
    [role |-> "ai", content |-> << "output" >> \o history[Len(history)].content]

\* VariableSearchAgent.reset
reset(messages) == << SystemMessage >>

NoRequest == [pc |-> "idle", query |-> <<>>, handed |-> <<>>, status |-> 0, sent |-> 0]

\* initialize_system has built the global chatbot; no request yet
InitChat ==
    /\ PipelineIdle
    /\ chat = [messages |-> << SystemMessage >>,
               request |-> [c \in Clients |-> NoRequest]]
    /\ runs = <<>>
    /\ parsed = <<>>
    /\ api = <<>>
    /\ train = <<>>
    /\ factors = <<>>

\* one request's thread moves on
Move(c, position, messages, fields) ==
    /\ chat' = [chat EXCEPT
                   !.messages = messages,
                   !.request[c] = [pc |-> position,
                                   query |-> fields.query,
                                   handed |-> fields.handed,
                                   status |-> fields.status,
                                   sent |-> fields.sent]]
    /\ UNCHANGED <<pipeline, runs, parsed, api, train, factors>>

\* GET /api/search?q=...: an empty query is answered at once with []
Receive(c) ==
    /\ chat.request[c].pc \in { "idle", "responded" }
    /\ chat.request[c].sent < MaxRequests
    /\ \E q \in ClientQueries(c) :
          Move(c, IF q = <<>> THEN "responded" ELSE "received", chat.messages,
               [query |-> q, handed |-> <<>>,
                status |-> IF q = <<>> THEN 200 ELSE 0,
                sent |-> chat.request[c].sent + 1])

\* chatbot.reset()
Reset(c) ==
    /\ chat.request[c].pc = "received"
    /\ Move(c, "reset", reset(chat.messages), chat.request[c])

\* self.messages.append(HumanMessage(content=search_prompt))
AppendHuman(c) ==
    /\ chat.request[c].pc = "reset"
    /\ Move(c, "prompted",
            Append(chat.messages, HumanMessage(SearchPrompt(chat.request[c].query))),
            chat.request[c])

\* response = self.agent.invoke(self.messages): it returns or raises
Invoke(c) ==
    /\ chat.request[c].pc = "prompted"
    /\ \E raises \in BOOLEAN :
          Move(c, IF raises THEN "responded" ELSE "invoked", chat.messages,
               [chat.request[c] EXCEPT !.handed = chat.messages,
                                       !.status = IF raises THEN 500 ELSE 0])

\* self.messages.append(AIMessage(content=response["output"]))
AppendAI(c) ==
    /\ chat.request[c].pc = "invoked"
    /\ Move(c, "answered",
            Append(chat.messages, AIMessage(chat.request[c].handed)),
            chat.request[c])

\* return jsonify(results)
Respond200(c) ==
    /\ chat.request[c].pc = "answered"
    /\ Move(c, "responded", chat.messages, [chat.request[c] EXCEPT !.status = 200])

NextChat ==
    \E c \in Clients :
        \/ Receive(c)
        \/ Reset(c)
        \/ AppendHuman(c)
        \/ Invoke(c)
        \/ AppendAI(c)
        \/ Respond200(c)

SpecChat == InitChat /\ [][NextChat]_vars

(* ============================ properties ============================== *)

\* the final result record of a finished run
Final == state.final_results[1]

\* the states after the decompose node has run
AfterDecompose ==
    pc \in { "search_variables", "search_database", "aggregate_results", "done" }

\* the states after the search_variables node has returned
AfterSearchVariables == pc \in { "search_database", "aggregate_results", "done" }

\* the text t occurs in s, letter case ignored
ContainsCI(s, t) ==
    \E i \in 1..(Len(s) - Len(t) + 1) :
        Lower(SubSeq(s, i, i + Len(t) - 1)) = Lower(t)

\* the term occurs in the row's dataset name, table name or a column name
RowContains(row, term) ==
    \/ ContainsCI(row.dataset_name, term)
    \/ ContainsCI(row.table_name, term)
    \/ \E i \in 1..Len(row.column_list) : ContainsCI(row.column_list[i], term)

\* how many rows the store returned over the whole log
RECURSIVE RowsReturned(_)
RowsReturned(log) ==
    IF log = <<>> THEN 0 ELSE Len(Head(log).rows) + RowsReturned(Tail(log))

\* how often x occurs in the sequence
Count(seq, x) == Cardinality({ i \in 1..Len(seq) : seq[i] = x })

\* the sizes of the groups, summed
RECURSIVE SumLens(_, _)
SumLens(f, D) ==
    IF D = {} THEN 0
    ELSE LET p == CHOOSE x \in D : TRUE IN Len(f[p]) + SumLens(f, D \ {p})

\* the one-subquery fallback for the run's query
FallbackQueries ==
    << [type |-> "dict", has_query |-> TRUE, query |-> state.original_query,
        purpose |-> "primary"] >>

\* the response of this run is a text json.loads rejects
Unparseable ==
    /\ llm # <<>>
    /\ ~llm[1].raises
    /\ ~JsonLoads(Strip(JsonMatch(llm[1].content)))

(* C1: search never raises: whatever the language model answers and the
   store does, a run ends with a final result record and not with an
   exception.  (The code raises from search_variables when an element of
   search_queries is no object, and from aggregate when a purpose is
   unhashable.) *)
C1_SearchNeverRaises ==
    /\ pc # "raised"
    /\ (pc = "done" => Len(state.final_results) = 1)

(* C2: after decompose, and in the final result's decomposition, the
   sub-query sequence is never empty.  (The code keeps the empty list of a
   response object without search_queries or with an empty one.) *)
C2_SubQueriesNeverEmpty ==
    /\ (AfterDecompose => Len(state.decomposed_queries) >= 1)
    /\ (pc = "done" => Len(Final.decomposition) >= 1)

(* C3: when the response text is not parseable as JSON after fence
   stripping, the decomposition is exactly the one sub-query
   {query: original text, purpose: primary}, after decompose and in the
   final result. *)
C3_MalformedGivesFallback ==
    (AfterDecompose /\ Unparseable) =>
        /\ state.decomposed_queries = FallbackQueries
        /\ (pc = "done" => Final.decomposition = FallbackQueries)

C3_Witness ==
    /\ pc = "done"
    /\ Unparseable
    /\ Has(llm[1].content, "{}")
    /\ Final.decomposition = FallbackQueries

(* C4: total_matches of the final result is the sum over the sub-queries
   of the number of rows the metadata search returned for each, a failed
   search counting 0 and a row returned for two sub-queries counting
   twice. *)
C4_TotalMatchesIsSum ==
    pc = "done" =>
        /\ Len(search_log) = Len(state.decomposed_queries)
        /\ Final.total_matches = RowsReturned(search_log)

C4_Witness ==
    /\ pc = "done"
    /\ Len(search_log) = 2
    /\ Len(search_log[1].rows) = 2
    /\ Len(search_log[2].rows) = 1
    /\ search_log[2].rows[1] \in { search_log[1].rows[i] : i \in 1..2 }
    /\ Final.total_matches = 3

(* C5: after search_database, database_results has at most 5 entries, no
   two for the same table, each for a table some variable result names. *)
C5_DatabaseResultsBounded ==
    pc \in { "aggregate_results", "done" } =>
        LET dr == state.database_results IN
        /\ Len(dr) <= 5
        /\ \A i, j \in 1..Len(dr) : dr[i].table_name = dr[j].table_name => i = j
        /\ \A i \in 1..Len(dr) :
              \E k \in 1..Len(state.variable_results) :
                  state.variable_results[k].table_name = dr[i].table_name

C5_Witness ==
    /\ pc = "aggregate_results"
    /\ Cardinality(ResultTables(state.variable_results)) > 5
    /\ Len(state.database_results) = 5

(* C6: in the final result, results_by_purpose partitions variable_results:
   every group is non-empty and holds only matches stamped with its key,
   every match occurs in the group of its purpose as often as in
   variable_results, and the group sizes sum to total_matches. *)
C6_GroupsPartitionResults ==
    pc = "done" =>
        LET f == Final.results_by_purpose
            vr == state.variable_results
        IN /\ \A p \in DOMAIN f :
                /\ f[p] # <<>>
                /\ \A i \in 1..Len(f[p]) : f[p][i].search_purpose = p
           /\ \A i \in 1..Len(vr) :
                /\ vr[i].search_purpose \in DOMAIN f
                /\ Count(f[vr[i].search_purpose], vr[i]) = Count(vr, vr[i])
           /\ SumLens(f, DOMAIN f) = Final.total_matches
           /\ Final.total_matches = Len(vr)

C6_Witness ==
    /\ pc = "done"
    /\ DOMAIN Final.results_by_purpose = { "primary", "normalization" }
    /\ Len(Final.results_by_purpose["primary"]) = 2
    /\ Len(Final.results_by_purpose["normalization"]) = 1

(* C7: in the final result, available_tables names no table twice, and
   when the matches reference at most 5 distinct tables it names exactly
   those tables. *)
C7_AvailableTablesAreTheDistinctTables ==
    pc = "done" =>
        LET at == Final.available_tables
            tables == { state.variable_results[i].table_name :
                          i \in 1..Len(state.variable_results) }
        IN /\ \A i, j \in 1..Len(at) : at[i] = at[j] => i = j
           /\ Cardinality(tables) <= 5 =>
                 { at[i] : i \in 1..Len(at) } = tables

C7_Witness ==
    /\ pc = "done"
    /\ Len(state.variable_results) = 3
    /\ { state.variable_results[i].table_name : i \in 1..3 } = { <<"a">>, <<"b">> }
    /\ { Final.available_tables[i] : i \in 1..Len(Final.available_tables) }
          = { <<"a">>, <<"b">> }
    /\ Final.total_matches = 3

(* C8: when search_metadata raises for a sub-query, the node appends one
   error message naming that sub-query's text and takes no match for it,
   and goes on to every later sub-query: the errors are, in order, one per
   sub-query whose search raised, every sub-query has been searched, and
   every row returned for another sub-query is among the results. *)
C8_RaisedSearchIsRecordedAndSkipped ==
    AfterSearchVariables =>
        LET raised == SelectSeq(search_log, LAMBDA e : e.outcome = "raised") IN
        /\ Len(search_log) = Len(state.decomposed_queries)
        /\ \A i \in 1..Len(search_log) :
              search_log[i].query = ItemQuery(state.decomposed_queries[i])
        /\ state.errors = [i \in 1..Len(raised) |->
                              [kind |-> "variable_search", subject |-> raised[i].query]]
        /\ \A i \in 1..Len(search_log) :
              /\ search_log[i].outcome = "raised" => search_log[i].rows = <<>>
              /\ \A k \in 1..Len(search_log[i].rows) :
                    \E n \in 1..Len(state.variable_results) :
                        state.variable_results[n] =
                            Stamp(search_log[i].rows[k], search_log[i].query,
                                  search_log[i].purpose)
        /\ Len(state.variable_results) = RowsReturned(search_log)
        /\ (pc = "done" => Final.errors = state.errors)

C8_Witness ==
    /\ pc = "done"
    /\ Len(search_log) = 2
    /\ search_log[1].outcome = "returned"
    /\ Len(search_log[1].rows) = 2
    /\ search_log[2].outcome = "raised"
    /\ Final.errors = << [kind |-> "variable_search", subject |-> search_log[2].query] >>
    /\ Final.total_matches = 2

(* C9: every row search_metadata returns has the geometry type asked for
   and contains, letter case ignored, one of the terms in its dataset
   name, table name or a column name.  (The code hands the term to LIKE
   unescaped, so a term with _ or % matches rows that do not contain it.) *)
C9_RowsMatchFilterAndTerm ==
    \A n \in 1..Len(last_call) :
        LET c == last_call[n] IN
        (c.op = "search_metadata" /\ c.outcome = "returned" /\ c.terms # <<>>) =>
            \A i \in 1..Len(c.rows) :
                /\ (c.geometry_type # "" => c.rows[i].geometry_type = c.geometry_type)
                /\ \E k \in 1..Len(c.terms) : RowContains(c.rows[i], c.terms[k])

(* C10: every store client operation, in every connection state and for
   every query failure, returns and never raises.  (On a searcher that was
   never connected, or whose connection is closed or lost, the handler's
   own self.conn.rollback() raises.) *)
C10_StoreOperationsNeverRaise ==
    \A n \in 1..Len(last_call) : last_call[n].outcome = "returned"

(* C11: every run enters the four nodes once each, in the order decompose,
   search_variables, search_database, aggregate_results, and ends only
   after the fourth: at every moment the nodes entered are a prefix of that
   order, and a run that has ended has entered all four.  (A run whose
   search_variables node raises, see C1, ends after two nodes.) *)
C11_FourNodesOnceInOrder ==
    /\ Len(visited) <= Len(Nodes)
    /\ \A i \in 1..Len(visited) : visited[i] = Nodes[i]
    /\ (pc \in { "done", "raised" } => visited = Nodes)

\* the decomposition of this run failed: the language-model call raised or
\* its response could not be parsed
DecompositionFailed == llm # <<>> /\ (llm[1].raises \/ Unparseable)

\* a catalog query of this run failed: search_metadata raised, or its
\* handler caught the failure and returned the empty list
CatalogQueryFailed == \E i \in 1..Len(search_log) : search_log[i].failed

\* sampling this table fails: there is no engine, or the table is gone
SampleFails(table_name) == engine = "none" \/ TableMissing(table_name)

\* the tables the search_database node of this run samples
SampledTables ==
    LET top == Take(SetList(ResultTables(state.variable_results), hash_order),
                    TOP_TABLES)
    IN { top[i] : i \in 1..Len(top) }

(* C12: the final result has an errors list, and the list is empty exactly
   when the run was clean: no decomposition failure, no failed catalog
   query, no failed table sample.  (A failure that decompose,
   search_metadata or get_table_sample catches itself leaves no error.) *)
C12_ErrorsEmptyIffClean ==
    pc = "done" =>
        /\ "errors" \in DOMAIN Final
        /\ Final.errors = <<>> <=>
              /\ ~DecompositionFailed
              /\ ~CatalogQueryFailed
              /\ ~\E t \in SampledTables : SampleFails(t)

(* C13: whenever the decomposition fails, the decompose node records an
   error message in the run's errors, besides taking the one-subquery
   fallback.  (decompose catches the failure itself, so the node's except
   branch, the only place that records the error, is never entered.) *)
C13_DecompositionFailureRecorded ==
    (AfterDecompose /\ DecompositionFailed) =>
        /\ state.decomposed_queries = FallbackQueries
        /\ \E i \in 1..Len(state.errors) : state.errors[i].kind = "decomposition"

(* C14: after search_database, for every table whose sampling failed there
   is exactly one error message naming it and no entry in database_results
   (nor, at the end, in available_tables), and every other table the node
   took has its entry.  (get_table_sample catches the failure and returns
   an empty frame, so the node appends an empty entry and no error.) *)
C14_FailedSampleRecordedAndOmitted ==
    pc \in { "aggregate_results", "done" } =>
        LET dr == state.database_results
            entries == { dr[i].table_name : i \in 1..Len(dr) }
        IN \A t \in SampledTables :
              IF SampleFails(t)
              THEN /\ t \notin entries
                   /\ Cardinality({ i \in 1..Len(state.errors) :
                          state.errors[i] = [kind |-> "database_search",
                                             subject |-> t] }) = 1
                   /\ (pc = "done" =>
                          \A i \in 1..Len(Final.available_tables) :
                              Final.available_tables[i] # t)
              ELSE t \in entries

\* the purposes of a sub-query the description names
Purposes == { "primary", "normalization", "filter", "related", "unknown" }

(* C15: every key of results_by_purpose in the final result is one of
   primary, normalization, filter, related, unknown.  (The code takes
   "unknown" only when the purpose key is absent; any other value the
   language model gives, null included, becomes a key as it is.) *)
C15_PurposeKeysAreKnown ==
    pc = "done" => DOMAIN Final.results_by_purpose \subseteq Purposes

\* the rows the store returned for each sub-query, stamped with the text
\* and purpose of that sub-query, one sub-query after the other
RECURSIVE StampedRows(_, _)
StampedRows(items, log) ==
    IF items = <<>> \/ log = <<>> THEN <<>>
    ELSE [k \in 1..Len(Head(log).rows) |->
             Stamp(Head(log).rows[k], ItemQuery(Head(items)), ItemPurpose(Head(items)))]
         \o StampedRows(Tail(items), Tail(log))

(* C16: after search_variables, variable_results is the concatenation, in
   the order of the sub-queries, of the rows the store returned for each
   sub-query in the order it returned them, each stamped with search_query
   and search_purpose equal to the text and purpose of its sub-query. *)
C16_ResultsAreStampedConcatenation ==
    AfterSearchVariables =>
        /\ Len(search_log) = Len(state.decomposed_queries)
        /\ state.variable_results =
              StampedRows(state.decomposed_queries, search_log)

C16_Witness ==
    /\ pc = "search_database"
    /\ Len(state.decomposed_queries) = 2
    /\ Len(search_log[1].rows) = 2
    /\ search_log[1].rows[1].id = 2
    /\ search_log[1].rows[2].id = 1
    /\ Len(search_log[2].rows) = 1
    /\ Len(state.variable_results) = 3
    /\ state.variable_results[1].id = 2
    /\ state.variable_results[1].search_purpose = "primary"
    /\ state.variable_results[3].search_query = <<"n">>
    /\ state.variable_results[3].search_purpose = "normalization"

\* the response of this run parses, to a JSON value that is no object with
\* a search_queries list: an array, or an object whose search_queries is null
NotAnObjectWithQueries ==
    /\ llm # <<>>
    /\ ~llm[1].raises
    /\ JsonLoads(Strip(JsonMatch(llm[1].content)))
    /\ llm[1].doc.shape \in { "array", "null_queries" }

(* C17: decompose never raises to its caller: for the response of every
   run no exception leaves it, so the decompose node never records a
   decomposition error, and when the language-model call raises, or the
   response is JSON that is no object, or another exception occurs inside,
   it returns the one-subquery fallback (original text, primary). *)
C17_DecomposeNeverRaises ==
    AfterDecompose =>
        LET decomposed == decompose(state.original_query, llm[1]) IN
        /\ ~decomposed.raised
        /\ \A i \in 1..Len(state.errors) : state.errors[i].kind # "decomposition"
        /\ (llm[1].raises \/ NotAnObjectWithQueries) =>
              /\ decomposed.has_search_queries
              /\ decomposed.search_queries = FallbackQueries
              /\ state.decomposed_queries = FallbackQueries

C17_Witness ==
    /\ pc = "search_variables"
    /\ NotAnObjectWithQueries
    /\ llm[1].doc.shape = "array"
    /\ state.decomposed_queries = FallbackQueries
    /\ state.errors = <<>>

(* C18: no store client operation and no step of a pipeline run changes
   the rows of the catalog table or of a data table: every step leaves the
   store as it was. *)
C18_StoreIsOnlyRead == [][store' = store]_vars

C18_Witness ==
    /\ pc = "done"
    /\ Final.total_matches > 0
    /\ \E i \in 1..Len(state.database_results) :
          state.database_results[i].sample_data > 0
    /\ store = InitialStore

\* r1 has the higher row count, a null row count being lower than any other
HigherCount(r1, r2) ==
    /\ r1.row_count # NullCount
    /\ (r2.row_count = NullCount \/ r1.row_count > r2.row_count)

(* C19: search_metadata returns at most limit rows; when its query ran,
   they are min(limit, number of matching rows) distinct matching catalog
   rows, no row before one with a higher row count, no matching row left
   out that has a higher row count than a returned one, a null row count
   ranking below every other. *)
C19_TopRowsByRowCount ==
    \A n \in 1..Len(last_call) :
        LET c == last_call[n] IN
        c.op = "search_metadata" =>
            /\ Len(c.rows) <= c.limit
            /\ (c.outcome = "returned" /\ ~c.failed) =>
                  LET matching == { row \in store.catalog :
                                      WhereClause(row, c.terms, c.geometry_type) }
                      returned == { c.rows[i] : i \in 1..Len(c.rows) }
                  IN /\ Len(c.rows) = IF Cardinality(matching) < c.limit
                                      THEN Cardinality(matching) ELSE c.limit
                     /\ returned \subseteq matching
                     /\ Cardinality(returned) = Len(c.rows)
                     /\ \A i, j \in 1..Len(c.rows) :
                           i < j => ~HigherCount(c.rows[j], c.rows[i])
                     /\ \A m \in matching \ returned : \A r \in returned :
                           ~HigherCount(m, r)

C19_Witness ==
    /\ last_call # <<>>
    /\ last_call[1].op = "search_metadata"
    /\ last_call[1].terms = << <<"S">> >>
    /\ last_call[1].geometry_type = ""
    /\ last_call[1].limit = 1
    /\ Len(last_call[1].rows) = 1
    /\ last_call[1].rows[1].row_count = 3
    /\ \E row \in store.catalog :
          /\ row.row_count = NullCount
          /\ WhereClause(row, last_call[1].terms, "")

(* C20: after a store operation has returned, successful or failed, the
   connection has no open transaction.  (The connection is not in
   autocommit mode and a successful call neither commits nor rolls back,
   so its SELECT leaves the transaction open.) *)
C20_NoTransactionLeftOpen ==
    /\ \A n \in 1..Len(last_call) : last_call[n].outcome = "returned" => ~txn
    /\ (pc \in { "search_database", "aggregate_results", "done" } => ~txn)

\* the tables the search_database node samples for these results in a
\* process whose sets iterate in the given order
SampledIn(variable_results, order) ==
    LET top == Take(SetList(ResultTables(variable_results), order), TOP_TABLES)
    IN { top[i] : i \in 1..Len(top) }

(* C30: the tables sampled, and available_tables, are fixed by
   variable_results alone: a run with the same variable_results in a
   process with any other set iteration order samples the same tables.
   (With more than 5 distinct tables the 5 taken are the first 5 of
   list(tables), which follow the per-process string hashes.) *)
C30_SampledTablesFixedByResults ==
    pc \in { "aggregate_results", "done" } =>
        LET dr == state.database_results
            sampled == { dr[i].table_name : i \in 1..Len(dr) }
        IN /\ \A order \in HashOrders :
                 SampledIn(state.variable_results, order) = sampled
           /\ (pc = "done" =>
                 \A order \in HashOrders :
                    { Final.available_tables[i] :
                        i \in 1..Len(Final.available_tables) }
                    = SampledIn(state.variable_results, order))

\* the table's columns whose name contains the pattern, letter case ignored
ColumnsContaining(row, pattern) ==
    SelectSeq(row.column_list, LAMBDA col : ContainsCI(col, pattern))

(* C23: search_columns returns exactly one entry for every pair of a table
   and a pattern asked for where the table has a column whose name
   contains the pattern, letter case ignored, no entry for any other pair,
   and the entry's matching_columns are all the columns of the table that
   contain the pattern.  (The pattern goes to LIKE unescaped, so _ matches
   columns that do not contain it; LIMIT cuts the entries of a pattern;
   a pattern given twice gives its entries twice.) *)
C23_OneEntryPerTableAndPattern ==
    \A n \in 1..Len(last_call) :
        LET c == last_call[n] IN
        (c.op = "search_columns" /\ c.outcome = "returned" /\ ~c.failed) =>
            \A row \in store.catalog :
                \A pattern \in { c.patterns[k] : k \in 1..Len(c.patterns) } :
                    LET found == { i \in 1..Len(c.rows) :
                                     /\ c.rows[i].table_name = row.table_name
                                     /\ c.rows[i].search_pattern = pattern }
                    IN IF ColumnsContaining(row, pattern) = <<>>
                       THEN found = {}
                       ELSE /\ Cardinality(found) = 1
                            /\ \A i \in found :
                                  c.rows[i].matching_columns =
                                      ColumnsContaining(row, pattern)

(* C24: search_columns returns at most limit results in total, whatever
   the list of patterns.  (LIMIT is part of the statement executed once
   per pattern, so up to limit entries are appended for each pattern.) *)
C24_AtMostLimitResults ==
    \A n \in 1..Len(last_call) :
        last_call[n].op = "search_columns" =>
            Len(last_call[n].rows) <= last_call[n].limit

\* the position of the first token of s that satisfies Is, 0 when none does
FirstIndex(s, Is(_)) ==
    IF \E i \in 1..Len(s) : Is(s[i])
    THEN CHOOSE i \in 1..Len(s) : Is(s[i]) /\ \A j \in 1..(i - 1) : ~Is(s[j])
    ELSE 0

\* the text between the fence at position i and the next fence (or the end)
InsideFence(s, i) == BeforeFence(SubSeq(s, i + 1, Len(s)))

\* a fence follows position i
ClosedAfter(s, i) == \E j \in (i + 1)..Len(s) : IsFence(s[j])

\* decompose returned the object of the response, not the fallback
ReturnedObject ==
    /\ parsed.result[1].has_search_queries
    /\ parsed.result[1].search_queries = BasicDoc.items

\* decompose returned the one-subquery fallback
ReturnedFallback ==
    /\ parsed.result[1].has_search_queries
    /\ parsed.result[1].search_queries =
          << [type |-> "dict", has_query |-> TRUE, query |-> FenceQuery,
              purpose |-> "primary"] >>

(* C22 as stated: when the text between the first opening fence, of either
   kind, and the next fence is a JSON object, decompose returns that
   object, whatever stands before the opening and after the closing
   fence. *)
C22_FirstFenceIsParsed ==
    LET c == parsed.content
        open == FirstIndex(c, IsFence)
    IN (parsed.result # <<>> /\ open # 0 /\ ClosedAfter(c, open)
          /\ Strip(InsideFence(c, open)) = <<"{}">>) => ReturnedObject

(* C22 amended: decompose parses exactly the text between the first json
   fence marker if the response has one, otherwise the first fence marker,
   and the next fence (or the end of the text): it returns the object when
   that text, stripped, is a JSON object and the fallback otherwise,
   whatever stands before the opening and after the closing fence. *)
C22_JsonFenceFirst ==
    LET c == parsed.content
        open == IF Has(c, "FENCE_JSON")
                THEN FirstIndex(c, LAMBDA tok : tok = "FENCE_JSON")
                ELSE FirstIndex(c, IsFence)
    IN (parsed.result # <<>> /\ open # 0) =>
          IF Strip(InsideFence(c, open)) = <<"{}">>
          THEN ReturnedObject
          ELSE ReturnedFallback

C22_Witness ==
    /\ parsed # <<>>
    /\ parsed.content = <<"prose", "FENCE_JSON", "{}", "FENCE">>
    /\ parsed.result # <<>>
    /\ ReturnedObject

\* the errors of a run: one per sub-query whose search raised
RECURSIVE SearchErrors(_)
SearchErrors(log) ==
    IF log = <<>> THEN <<>>
    ELSE (IF Head(log).outcome = "raised"
          THEN << [kind |-> "variable_search", subject |-> Head(log).query] >>
          ELSE <<>>) \o SearchErrors(Tail(log))

\* the final result of a run of its own: of the run's query, the response
\* it got and what the store returned for its sub-queries
ResultAlone(query, response, log) ==
    LET decomposed == decompose_node(InitialState(query), response)
        searched == [decomposed EXCEPT
                        !.variable_results =
                            StampedRows(decomposed.decomposed_queries, log),
                        !.errors = SearchErrors(log)]
    IN FinalResults(search_database_node(searched, engine, hash_order))

(* C21: each run owns its state and result: for two runs of one agent, one
   after the other or interleaved between their nodes, the result of a
   finished run is the result of that run alone, for its own query, its own
   response and what the store returned to it, and every match in it is
   stamped with one of its own sub-queries. *)
C21_RunsOwnTheirResults ==
    \A r \in DOMAIN runs :
        runs[r].pc = "done" =>
            LET final == runs[r].state.final_results[1]
                own == runs[r].state.decomposed_queries
                vr == runs[r].state.variable_results
            IN /\ final = ResultAlone(RunQuery(r), runs[r].llm[1], runs[r].log)
               /\ final.query = RunQuery(r)
               /\ \A i \in 1..Len(vr) :
                     \E k \in 1..Len(own) : vr[i].search_query = ItemQuery(own[k])

C21_Witness ==
    /\ runs # <<>>
    /\ \A r \in RunIds :
          /\ runs[r].pc = "done"
          /\ runs[r].overlapped
          /\ runs[r].state.final_results[1].total_matches > 0
    /\ runs[1].state.final_results[1].errors # <<>>
    /\ runs[2].state.final_results[1].errors = <<>>
    /\ runs[1].state.final_results[1].results_by_purpose
          # runs[2].state.final_results[1].results_by_purpose

(* C25: the three API functions never raise: for every input text and
   every failure of the operation behind them the call returns a JSON
   text, and whenever an exception occurred in the function that text is
   an object with the key error. *)
C25_ApiFunctionsNeverRaise ==
    (api # <<>> /\ api.reply # <<>>) =>
        /\ ~api.reply[1].raised
        /\ (api.exception \/ InputRaises(api.input)) =>
              /\ api.reply[1].is_object
              /\ api.reply[1].has_error

C25_Witness ==
    /\ api # <<>>
    /\ api.fn = "full_search_api"
    /\ api.input.kind = "object"
    /\ api.reply # <<>>
    /\ api.exception
    /\ ~api.reply[1].raised
    /\ api.reply[1].has_error

(* C26: training never starts on fewer than 10 usable rows: whenever fit
   has been called, the data set had at least 10 rows at the train/test
   split, after the rows with a null target were dropped.  (The row count
   is checked before those rows are dropped.) *)
C26_NoTrainingBelowTenRows ==
    (train # <<>> /\ train.fit_started # <<>>) =>
        /\ train.fit_started[1] >= MIN_ROWS
        /\ train.upload.rows - train.upload.null_targets >= MIN_ROWS

(* C27: once the temporary model directory has been created, it has been
   removed when the request completes, whether with the successful
   response, with 500 after a training failure, or with an HTTPException
   raised again. *)
C27_TempDirRemoved ==
    (train # <<>> /\ train.pc = "responded") => train.tmp_dir \in { "none", "removed" }

C27_Witness ==
    /\ train # <<>>
    /\ train.pc = "responded"
    /\ train.status = 500
    /\ train.fit_started # <<>>
    /\ train.tmp_dir = "removed"

(* C28: parse_final_response returns the first MAX_FACTORS matching lines
   when the response has more than MAX_FACTORS of them, all matching lines
   when it has between 1 and MAX_FACTORS, and None when it has none. *)
C28_FirstMaxFactorsReturned ==
    (factors # <<>> /\ factors.pc = "returned") =>
        LET matches == FindAll(factors.final_response)
        IN  CASE Len(matches) > MAX_FACTORS ->
                    /\ ~factors.returned.is_none
                    /\ factors.returned.value = SubSeq(matches, 1, MAX_FACTORS)
              [] Len(matches) \in 1..MAX_FACTORS ->
                    /\ ~factors.returned.is_none
                    /\ factors.returned.value = matches
              [] OTHER -> factors.returned.is_none

(* C29: the history handed to the agent for a /api/search request is
   exactly the system prompt followed by that request's own search prompt,
   also when two requests are handled concurrently on the shared chatbot,
   and the history never holds more than three messages. *)
C29_OwnPromptOnly ==
    chat # <<>> =>
        /\ Len(chat.messages) <= 3
        /\ \A c \in Clients :
              chat.request[c].handed # <<>> =>
                  chat.request[c].handed =
                      << SystemMessage, HumanMessage(SearchPrompt(chat.request[c].query)) >>

====
